---- MODULE Spec2Model ----
(***************************************************************************)
(* A model of the FP&A question-answering agent: the rule-based planner    *)
(* (agent/planner.py), the two build_engine implementations                *)
(* (agent/engine.py and engine.py) and FinanceTools (agent/tools.py).      *)
(*                                                                         *)
(* Text is a sequence of one-character strings, so that Python's           *)
(* `k in text`, str.lower, str.startswith, str.split and the regular       *)
(* expressions are computed on the characters and not assumed.             *)
(* Money amounts are integers; a float that may be NaN or infinite is a    *)
(* record [k |-> "num" | "nan" | "inf", n, d] holding the fraction n/d.    *)
(***************************************************************************)
EXTENDS Integers, Sequences, FiniteSets, TLC

VARIABLES
  question,     \* the question text handed to Planner.parse / answer()
  plotting,     \* the plotting flag of the last answer() call
  plan,         \* what Planner.parse returned (or that it raised)
  extracted,    \* what the first lines of answer() read from the question
  result,       \* what the last answer() call returned (or that it raised)
  tool_out,     \* what the last FinanceTools / engine helper call returned
  actuals_csv,  \* rows of actuals.csv
  budget_csv,   \* rows of budget.csv
  fx_csv,       \* rows of fx.csv
  cash_csv,     \* rows of cash.csv
  engine,       \* the tables the closure answer() of build_engine holds
  tools         \* the attributes of the FinanceTools instance

vars == <<question, plotting, plan, extracted, result, tool_out,
          actuals_csv, budget_csv, fx_csv, cash_csv, engine, tools>>

csvs == <<actuals_csv, budget_csv, fx_csv, cash_csv>>

-----------------------------------------------------------------------------
(* Characters and strings *)

UPPER == <<"A","B","C","D","E","F","G","H","I","J","K","L","M",
           "N","O","P","Q","R","S","T","U","V","W","X","Y","Z">>
LOWER == <<"a","b","c","d","e","f","g","h","i","j","k","l","m",
           "n","o","p","q","r","s","t","u","v","w","x","y","z">>
DIGITS == <<"0","1","2","3","4","5","6","7","8","9">>

UPPER_SET == {UPPER[i] : i \in DOMAIN UPPER}
LOWER_SET == {LOWER[i] : i \in DOMAIN LOWER}
DIGIT_SET == {DIGITS[i] : i \in DOMAIN DIGITS}
\* the lower-case letter of each upper-case letter, the value of each digit
LOWER_OF == [c \in UPPER_SET |-> LOWER[CHOOSE i \in DOMAIN UPPER : UPPER[i] = c]]
DIGIT_OF == [c \in DIGIT_SET |-> (CHOOSE i \in DOMAIN DIGITS : DIGITS[i] = c) - 1]

IsUpper(c) == c \in UPPER_SET
LETTER_SET == UPPER_SET \cup LOWER_SET
IsLetter(c) == c \in LETTER_SET
IsDigit(c) == c \in DIGIT_SET
SPACE_SET == {" "}
IsSpace(c) == c \in SPACE_SET
DigitVal(c) == DIGIT_OF[c]

\* str.lower()
lower_char(c) == IF IsUpper(c) THEN LOWER_OF[c] ELSE c
RECURSIVE lower(_)
lower(t) == IF t = <<>> THEN <<>> ELSE <<lower_char(t[1])>> \o lower(Tail(t))

\* t[i:i+n] compared with k, without building the slice
MatchAt(k, t, i) == /\ i + Len(k) - 1 <= Len(t)
                    /\ \A j \in 1..Len(k) : t[i + j - 1] = k[j]
\* Python's `k in t`
contains(k, t) == \E i \in 1..(Len(t) - Len(k) + 1) : MatchAt(k, t, i)
\* str.startswith
startswith(t, p) == MatchAt(p, t, 1)
\* int(digits)
RECURSIVE ToInt(_)
ToInt(ds) == IF ds = <<>> THEN 0
             ELSE 10 * ToInt(SubSeq(ds, 1, Len(ds) - 1)) + DigitVal(ds[Len(ds)])
\* the end of the maximal run of characters satisfying P that starts at i (i-1 when empty)
RECURSIVE RunEnd(_, _, _)
RunEnd(S, t, i) == IF i <= Len(t) /\ t[i] \in S THEN RunEnd(S, t, i + 1) ELSE i - 1
\* str.strip()
RECURSIVE strip(_)
strip(t) == IF t # <<>> /\ IsSpace(t[1]) THEN strip(Tail(t))
            ELSE IF t # <<>> /\ IsSpace(t[Len(t)]) THEN strip(SubSeq(t, 1, Len(t) - 1))
            ELSE t
\* " ".join(parts)
RECURSIVE Join(_)
Join(parts) == IF parts = <<>> THEN <<>>
               ELSE IF Len(parts) = 1 THEN parts[1]
               ELSE parts[1] \o <<" ">> \o Join(Tail(parts))

\* Optional values: None and a present value
None == <<>>
Some(x) == <<x>>

-----------------------------------------------------------------------------
(* String literals of the source *)

\* the string literals of the source, by name
STR ==
  [cash_runway |-> <<"c","a","s","h"," ","r","u","n","w","a","y">>,
   cash |-> <<"c","a","s","h">>,
   runway |-> <<"r","u","n","w","a","y">>,
   break_down |-> <<"b","r","e","a","k"," ","d","o","w","n">>,
   breakdown |-> <<"b","r","e","a","k","d","o","w","n">>,
   by_category |-> <<"b","y"," ","c","a","t","e","g","o","r","y">>,
   trend |-> <<"t","r","e","n","d">>,
   trends |-> <<"t","r","e","n","d","s">>,
   over_time |-> <<"o","v","e","r"," ","t","i","m","e">>,
   by_month |-> <<"b","y"," ","m","o","n","t","h">>,
   chart |-> <<"c","h","a","r","t">>,
   plot |-> <<"p","l","o","t">>,
   line |-> <<"l","i","n","e">>,
   graph |-> <<"g","r","a","p","h">>,
   show |-> <<"s","h","o","w">>,
   last |-> <<"l","a","s","t">>,
   history |-> <<"h","i","s","t","o","r","y">>,
   trailing |-> <<"t","r","a","i","l","i","n","g">>,
   vs_budget |-> <<"v","s"," ","b","u","d","g","e","t">>,
   versus_budget |-> <<"v","e","r","s","u","s"," ","b","u","d","g","e","t">>,
   budget |-> <<"b","u","d","g","e","t">>,
   variance |-> <<"v","a","r","i","a","n","c","e">>,
   revenue |-> <<"r","e","v","e","n","u","e">>,
   sales |-> <<"s","a","l","e","s">>,
   top_line |-> <<"t","o","p"," ","l","i","n","e">>,
   gross_margin |-> <<"g","r","o","s","s"," ","m","a","r","g","i","n">>,
   gmpct |-> <<"g","m","%">>,
   marginpct |-> <<"m","a","r","g","i","n","%">>,
   margin_pct |-> <<"m","a","r","g","i","n"," ","%">>,
   gross_profit |-> <<"g","r","o","s","s"," ","p","r","o","f","i","t">>,
   gp |-> <<"g","p">>,
   cogs |-> <<"c","o","g","s">>,
   cost_of_goods |-> <<"c","o","s","t"," ","o","f"," ","g","o","o","d","s">>,
   costs |-> <<"c","o","s","t","s">>,
   opex |-> <<"o","p","e","x">>,
   operating_expense |-> <<"o","p","e","r","a","t","i","n","g"," ","e","x","p","e","n","s","e">>,
   expenses |-> <<"e","x","p","e","n","s","e","s">>,
   ebitda |-> <<"e","b","i","t","d","a">>,
   operating_income |-> <<"o","p","e","r","a","t","i","n","g"," ","i","n","c","o","m","e">>,
   ebitda_pct |-> <<"e","b","i","t","d","a"," ","%">>,
   ebitda_margin |-> <<"e","b","i","t","d","a"," ","m","a","r","g","i","n">>,
   last_sp |-> <<"l","a","s","t"," ">>,
   sp_month |-> <<" ","m","o","n","t","h">>,
   trailing_sp |-> <<"t","r","a","i","l","i","n","g"," ">>,
   jan |-> <<"j","a","n">>,
   january |-> <<"j","a","n","u","a","r","y">>,
   feb |-> <<"f","e","b">>,
   february |-> <<"f","e","b","r","u","a","r","y">>,
   mar |-> <<"m","a","r">>,
   march |-> <<"m","a","r","c","h">>,
   apr |-> <<"a","p","r">>,
   april |-> <<"a","p","r","i","l">>,
   may |-> <<"m","a","y">>,
   jun |-> <<"j","u","n">>,
   june |-> <<"j","u","n","e">>,
   jul |-> <<"j","u","l">>,
   july |-> <<"j","u","l","y">>,
   aug |-> <<"a","u","g">>,
   august |-> <<"a","u","g","u","s","t">>,
   sep |-> <<"s","e","p">>,
   sept |-> <<"s","e","p","t">>,
   sepember |-> <<"s","e","p","e","m","b","e","r">>,
   september |-> <<"s","e","p","t","e","m","b","e","r">>,
   oct |-> <<"o","c","t">>,
   october |-> <<"o","c","t","o","b","e","r">>,
   nov |-> <<"n","o","v">>,
   november |-> <<"n","o","v","e","m","b","e","r">>,
   dec |-> <<"d","e","c">>,
   december |-> <<"d","e","c","e","m","b","e","r">>,
   Other |-> <<"O","t","h","e","r">>,
   Revenue |-> <<"R","e","v","e","n","u","e">>,
   COGS |-> <<"C","O","G","S">>,
   Opex |-> <<"O","p","e","x">>]

-----------------------------------------------------------------------------
(* Months.  A month-start date is the number year * 12 + (month - 1). *)

ym(year, month) == year * 12 + (month - 1)

\* dateutil.parser.parserinfo.MONTHS: the names dateutil knows, by month number
MONTHS == << {STR.jan, STR.january}, {STR.feb, STR.february}, {STR.mar, STR.march},
             {STR.apr, STR.april}, {STR.may}, {STR.jun, STR.june}, {STR.jul, STR.july},
             {STR.aug, STR.august}, {STR.sep, STR.sept, STR.september}, {STR.oct, STR.october},
             {STR.nov, STR.november}, {STR.dec, STR.december} >>

\* dateparser.parse("<word><spaces><4 digits>"): [ok, year, month].  dateutil raises
\* on a word that is no month name or abbreviation (it is not a fuzzy parse), and
\* datetime raises on the year 0.
dateparser_parse(word, digits) ==
  LET w == lower(word)
      y == ToInt(digits)
  IN IF (\E m \in DOMAIN MONTHS : w \in MONTHS[m]) /\ y >= 1
     THEN [ok |-> TRUE, year |-> y,
           month |-> CHOOSE m \in DOMAIN MONTHS : w \in MONTHS[m]]
     ELSE [ok |-> FALSE]

\* (jan|feb|mar|apr|may|jun|jul|aug|sep|oct|nov|dec) of Planner._detect_month
PLANNER_MONTH_PREFIX == {STR.jan, STR.feb, STR.mar, STR.apr, STR.may, STR.jun,
                         STR.jul, STR.aug, STR.sep, STR.oct, STR.nov, STR.dec}

\* the alternatives of month_pattern in _extract_month, optional groups expanded
ENGINE_MONTH_NAMES == {STR.jan, STR.january, STR.feb, STR.february, STR.mar, STR.march,
                       STR.apr, STR.april, STR.may, STR.jun, STR.june, STR.jul, STR.july,
                       STR.aug, STR.august, STR.sep, STR.sept, STR.sepember, STR.september,
                       STR.oct, STR.october, STR.nov, STR.november, STR.dec, STR.december}

-----------------------------------------------------------------------------
(* agent/planner.py *)

METRIC_KEYWORDS ==
  << <<"revenue", {STR.revenue, STR.sales, STR.top_line}>>,
     <<"gross margin %", {STR.gross_margin, STR.gmpct, STR.marginpct, STR.margin_pct}>>,
     <<"gross profit", {STR.gross_profit, STR.gp}>>,
     <<"cogs", {STR.cogs, STR.cost_of_goods, STR.costs}>>,
     <<"opex", {STR.opex, STR.operating_expense, STR.expenses}>>,
     <<"ebitda", {STR.ebitda, STR.operating_income}>>,
     <<"ebitda %", {STR.ebitda_pct, STR.ebitda_margin}>> >>

\* a metric detection that returns the metric whose keyword occurs leftmost in the text
_detect_metric_leftmost(text) ==
  LET at(m) == {i \in 1..Len(text) : \E k \in METRIC_KEYWORDS[m][2] : MatchAt(k, text, i)}
      hits == {m \in DOMAIN METRIC_KEYWORDS : at(m) # {}}
      first(m) == CHOOSE i \in at(m) : \A j \in at(m) : i <= j
  IN IF hits # {}
     THEN METRIC_KEYWORDS[CHOOSE m \in hits :
                            \A n \in hits : first(m) < first(n) \/ (first(m) = first(n) /\ m <= n)][1]
     ELSE "revenue"

\* Planner._detect_metric: the first metric of the table one of whose keywords occurs
_detect_metric(text) ==
  LET hits == {m \in DOMAIN METRIC_KEYWORDS :
                 \E k \in METRIC_KEYWORDS[m][2] : contains(k, text)}
  IN IF hits # {} THEN METRIC_KEYWORDS[CHOOSE m \in hits : \A n \in hits : m <= n][1]
     ELSE "revenue"

\* Planner._detect_vs_budget
_detect_vs_budget(text) ==
  \E p \in {STR.vs_budget, STR.versus_budget, STR.budget, STR.variance} : contains(p, text)

\* the least element of a non-empty set of positions: re.search returns the leftmost match
Leftmost(S) == CHOOSE i \in S : \A j \in S : i <= j

\* Planner._detect_trailing_months: r"last (\d+) month", then r"trailing (\d+)"
_detect_trailing_months(text) ==
  LET dEnd(i, n) == RunEnd(DIGIT_SET, text, i + n)
      lastAt == {i \in 1..Len(text) :
                   /\ MatchAt(STR.last_sp, text, i)
                   /\ dEnd(i, 5) >= i + 5
                   /\ MatchAt(STR.sp_month, text, dEnd(i, 5) + 1)}
      trailAt == {i \in 1..Len(text) :
                   /\ MatchAt(STR.trailing_sp, text, i)
                   /\ dEnd(i, 9) >= i + 9}
  IN IF lastAt # {}
     THEN LET i == Leftmost(lastAt) IN Some(ToInt(SubSeq(text, i + 5, dEnd(i, 5))))
     ELSE IF trailAt # {}
     THEN LET i == Leftmost(trailAt) IN Some(ToInt(SubSeq(text, i + 9, dEnd(i, 9))))
     ELSE None

\* r"20\d{2}-(0[1-9]|1[0-2])" matched at position i
IsoAt(t, i) ==
  /\ i + 6 <= Len(t)
  /\ t[i] = "2" /\ t[i + 1] = "0" /\ IsDigit(t[i + 2]) /\ IsDigit(t[i + 3])
  /\ t[i + 4] = "-"
  /\ \/ t[i + 5] = "0" /\ IsDigit(t[i + 6]) /\ t[i + 6] # "0"
     \/ t[i + 5] = "1" /\ t[i + 6] \in {"0", "1", "2"}

IsoMonth(t, i) == ym(ToInt(SubSeq(t, i, i + 3)), ToInt(SubSeq(t, i + 5, i + 6)))

\* r"(jan|...|dec)[a-z]*\s+20\d{2}" with re.I matched at position i of the text t,
\* tl its lower-cased copy: the letters run to a, the spaces to b, the year is
\* t[b+1..b+4]
PlannerWordEnd(t, i) == RunEnd(LETTER_SET, t, i + 3)
PlannerGapEnd(t, i) == RunEnd(SPACE_SET, t, PlannerWordEnd(t, i) + 1)
PlannerMonthAt(t, tl, i) ==
  LET a == PlannerWordEnd(t, i)
      b == PlannerGapEnd(t, i)
  IN /\ \E p \in PLANNER_MONTH_PREFIX : MatchAt(p, tl, i)
     /\ b >= a + 1
     /\ b + 4 <= Len(t)
     /\ t[b + 1] = "2" /\ t[b + 2] = "0" /\ IsDigit(t[b + 3]) /\ IsDigit(t[b + 4])

\* Planner._detect_month: [raised, month].  The result of dateparser.parse is used
\* unguarded, so a matched text dateutil cannot parse raises out of the method.
_detect_month(text) ==
  LET tl == lower(text)
      named == {i \in 1..Len(text) : PlannerMonthAt(text, tl, i)}
      iso == {i \in 1..Len(text) : IsoAt(text, i)}
  IN IF named # {}
     THEN LET i == Leftmost(named)
              b == PlannerGapEnd(text, i)
              dt == dateparser_parse(SubSeq(text, i, PlannerWordEnd(text, i)),
                                     SubSeq(text, b + 1, b + 4))
          IN IF dt.ok THEN [raised |-> FALSE, month |-> Some(ym(dt.year, dt.month))]
             ELSE [raised |-> TRUE, month |-> None]
     ELSE IF iso # {}
     THEN [raised |-> FALSE, month |-> Some(IsoMonth(text, Leftmost(iso)))]
     ELSE [raised |-> FALSE, month |-> None]

Plan(intent, metric, month, months, compare_budget) ==
  [raised |-> FALSE, intent |-> intent, metric |-> metric, month |-> month,
   months |-> months, compare_budget |-> compare_budget]

PlanRaised == [raised |-> TRUE]

\* the first check of Planner.parse
PlannerRunwayCheck(ql) == contains(STR.cash_runway, ql) \/ contains(STR.runway, ql)

\* the breakdown check of Planner.parse
PlannerBreakdownCheck(ql) == contains(STR.break_down, ql) \/ contains(STR.breakdown, ql)

\* the trend check of Planner.parse
PlannerTrendCheck(ql) ==
  \E w \in {STR.trend, STR.over_time, STR.chart, STR.plot, STR.line, STR.last, STR.history, STR.trailing} :
    contains(w, ql)

\* Planner.parse
parse(q) ==
  LET ql == lower(q)
      metric == _detect_metric(ql)
      month == _detect_month(q)
      months == _detect_trailing_months(ql)
      compare_budget == _detect_vs_budget(ql)
  IN IF PlannerRunwayCheck(ql)
     THEN Plan("cash_runway", "None", None, None, FALSE)
     ELSE IF month.raised THEN PlanRaised
     ELSE IF PlannerBreakdownCheck(ql)
     THEN Plan("breakdown", "opex", month.month, None, compare_budget)
     ELSE IF PlannerTrendCheck(ql)
     THEN Plan("trend", metric, None, months, compare_budget)
     ELSE Plan("point", metric, month.month, None, compare_budget)

-----------------------------------------------------------------------------
(* agent/engine.py and engine.py: parsing helpers (the same code in both) *)

\* a word character of \b: a letter, a digit or an underscore
IsWordChar(c) == IsLetter(c) \/ IsDigit(c) \/ c = "_"

\* month_pattern of _extract_month (re.IGNORECASE) matched at position i of the
\* lower-cased text with the month name nm: the name, \s*, then \d{4}
EngineGapEnd(tl, i, nm) == RunEnd(SPACE_SET, tl, i + Len(nm))
EngineMonthAt(tl, i, nm) ==
  LET b == EngineGapEnd(tl, i, nm)
  IN /\ MatchAt(nm, tl, i)
     /\ b + 4 <= Len(tl)
     /\ \A j \in 1..4 : IsDigit(tl[b + j])

\* r"\b(20\d{2})-(0[1-9]|1[0-2])\b" matched at position i
EngineIsoAt(t, i) ==
  /\ IsoAt(t, i)
  /\ (i = 1 \/ ~IsWordChar(t[i - 1]))
  /\ (i + 6 = Len(t) \/ ~IsWordChar(t[i + 7]))

\* _parse_month: the try/except turns every failure of dateutil into None
_parse_month(word, digits) ==
  LET dt == dateparser_parse(word, digits)
  IN IF dt.ok THEN Some(ym(dt.year, dt.month)) ELSE None

\* _extract_month: a month, or None
_extract_month(q) ==
  LET tl == lower(q)
      named == {i \in 1..Len(q) : \E nm \in ENGINE_MONTH_NAMES : EngineMonthAt(tl, i, nm)}
      iso == {i \in 1..Len(q) : EngineIsoAt(q, i)}
  IN IF named # {}
     THEN LET i == Leftmost(named)
              nm == CHOOSE n \in ENGINE_MONTH_NAMES : EngineMonthAt(tl, i, n)
              b == EngineGapEnd(tl, i, nm)
          IN _parse_month(SubSeq(q, i, i + Len(nm) - 1), SubSeq(q, b + 1, b + 4))
     ELSE IF iso # {} THEN Some(IsoMonth(q, Leftmost(iso)))
     ELSE None

_is_trend(q) ==
  \E w \in {STR.trend, STR.trends, STR.over_time, STR.by_month, STR.chart, STR.plot, STR.line,
            STR.graph, STR.show} : contains(w, lower(q))

_vs_budget(q) ==
  \E w \in {STR.vs_budget, STR.versus_budget, STR.variance, STR.budget} : contains(w, lower(q))

\* the condition of answer()'s cash-runway branch
EngineRunwayCheck(ql) ==
  contains(STR.cash_runway, ql) \/ (contains(STR.cash, ql) /\ contains(STR.runway, ql))

\* the condition of answer()'s Opex-breakdown branch
EngineBreakdownCheck(ql) ==
  /\ contains(STR.opex, ql)
  /\ (contains(STR.break_down, ql) \/ contains(STR.breakdown, ql) \/ contains(STR.by_category, ql))

-----------------------------------------------------------------------------
(* Floats.  A value is the fraction n/d (d # 0), NaN, or an infinity of sign n. *)

RECURSIVE GCD(_, _)
GCD(a, b) == IF b = 0 THEN a ELSE GCD(b, a % b)
Abs(i) == IF i < 0 THEN -i ELSE i
\* the fraction n/d in lowest terms with d > 0
Num(n, d) == LET g == GCD(Abs(n), Abs(d))
                 s == IF d < 0 THEN -1 ELSE 1
             IN [k |-> "num", n |-> s * (n \div g), d |-> s * (d \div g)]
FInt(n) == Num(n, 1)
NaN == [k |-> "nan", n |-> 0, d |-> 1]
Inf(s) == [k |-> "inf", n |-> s, d |-> 1]

IsNaN(x) == x.k = "nan"
Sign(i) == IF i > 0 THEN 1 ELSE IF i < 0 THEN -1 ELSE 0
\* x == y on floats (NaN equals nothing)
FEq(x, y) == \/ x.k = "num" /\ y.k = "num" /\ x.n * y.d = y.n * x.d
             \/ x.k = "inf" /\ y.k = "inf" /\ x.n = y.n
\* x / y on floats: numpy and float division by zero give an infinity or NaN
FDiv(x, y) ==
  IF x.k = "nan" \/ y.k = "nan" THEN NaN
  ELSE IF x.k = "inf" THEN (IF y.k = "inf" THEN NaN
                            ELSE Inf(x.n * (IF Sign(y.n) * Sign(y.d) < 0 THEN -1 ELSE 1)))
  ELSE IF y.k = "inf" THEN FInt(0)
  ELSE IF y.n = 0 THEN (IF x.n = 0 THEN NaN ELSE Inf(Sign(x.n) * Sign(x.d)))
  ELSE Num(x.n * y.d, x.d * y.n)
\* x * c for an integer c > 0
FScale(x, c) == IF x.k = "num" THEN Num(x.n * c, x.d) ELSE x
\* x - y
FSub(x, y) ==
  IF x.k = "nan" \/ y.k = "nan" THEN NaN
  ELSE IF x.k = "inf" THEN (IF y.k = "inf" /\ y.n = x.n THEN NaN ELSE x)
  ELSE IF y.k = "inf" THEN Inf(-y.n)
  ELSE Num(x.n * y.d - y.n * x.d, x.d * y.d)
\* x <= 0 (False on NaN)
FLeqZero(x) == \/ x.k = "num" /\ Sign(x.n) * Sign(x.d) <= 0
               \/ x.k = "inf" /\ x.n < 0
\* numpy.where(cond, a, b) on one element
np_where(cond, a, b) == IF cond THEN a ELSE b

RECURSIVE SumSeq(_)
SumSeq(s) == IF s = <<>> THEN 0 ELSE s[1] + SumSeq(Tail(s))
\* ["amount_usd"].sum() over the rows of a table
SumAmount(rows) == SumSeq([i \in DOMAIN rows |-> rows[i].amount_usd])
Max(S) == CHOOSE x \in S : \A y \in S : y <= x
Range(s) == {s[i] : i \in DOMAIN s}
\* the orders of a finite set
Orders(S) == {s \in [1..Cardinality(S) -> S] : \A i, j \in DOMAIN s : i # j => s[i] # s[j]}

-----------------------------------------------------------------------------
(* Accounts *)

\* the position of the first colon of t, 0 when it has none
FirstColon(t) == IF \E i \in DOMAIN t : t[i] = ":"
                 THEN Leftmost({i \in DOMAIN t : t[i] = ":"}) ELSE 0
\* str.split(":")[0]
BeforeColon(t) == IF FirstColon(t) = 0 THEN t ELSE SubSeq(t, 1, FirstColon(t) - 1)
\* str.split(":", 1)[1], for a text that holds a colon
AfterColon(t) == SubSeq(t, FirstColon(t) + 1, Len(t))


-----------------------------------------------------------------------------
(* agent/engine.py and engine.py: load and transforms (the same code in both) *)

\* fx.drop_duplicates(subset=["date", "currency"], keep="last") of _load
drop_duplicates_last(fxrows) ==
  SelectSeq([i \in DOMAIN fxrows |-> [row |-> fxrows[i], i |-> i]],
            LAMBDA e : ~\E j \in DOMAIN fxrows :
                          /\ j > e.i
                          /\ fxrows[j].date = e.row.date
                          /\ fxrows[j].currency = e.row.currency)

_load_fx(fxrows) == LET kept == drop_duplicates_last(fxrows)
                    IN [i \in DOMAIN kept |-> kept[i].row]

RECURSIVE Flatten(_)
Flatten(ss) == IF ss = <<>> THEN <<>> ELSE ss[1] \o Flatten(Tail(ss))

\* pd.merge(df, fx, on=["date", "currency"], how="left") with the rate filled with 1.0
\* and amount_usd added: one row per matching fx row, one row when none matches
merge_usd(df, fxrows) ==
  Flatten([i \in DOMAIN df |->
    LET r == df[i]
        hits == SelectSeq(fxrows, LAMBDA f : f.date = r.date /\ f.currency = r.currency)
        out(rate) == [date |-> r.date, account |-> r.account, amount |-> r.amount,
                      currency |-> r.currency, rate_to_usd |-> rate,
                      amount_usd |-> r.amount * rate]
    IN IF hits = <<>> THEN <<out(1)>>
       ELSE [j \in DOMAIN hits |-> out(hits[j].rate_to_usd)]])

_to_usd(df, fxrows) == merge_usd(df, fxrows)

\* classify of _build_pivots
classify(account) ==
  LET lowered == lower(account)
  IN IF startswith(lowered, STR.opex) THEN "Opex"
     ELSE IF startswith(lowered, STR.cogs) THEN "Cogs"
     ELSE IF startswith(lowered, STR.revenue) THEN "Revenue"
     ELSE "Other"

\* pivot_table(index="date", columns="Kind", values="amount_usd", aggfunc="sum")
\* .fillna(0.0), with the Revenue, Cogs and Opex columns added when absent
pivot_table(usd) ==
  LET col(d, kind) == SumAmount(SelectSeq(usd, LAMBDA r : r.date = d /\ classify(r.account) = kind))
  IN [d \in {usd[i].date : i \in DOMAIN usd} |->
        [Revenue |-> col(d, "Revenue"), Cogs |-> col(d, "Cogs"),
         Opex |-> col(d, "Opex"), Other |-> col(d, "Other")]]

\* enrich_row with the Revenue != 0 test of np.where left out
enrich_row_unguarded(r) ==
  LET gp == r.Revenue - r.Cogs
      ebitda == r.Revenue - r.Cogs - r.Opex
  IN [Revenue |-> r.Revenue, Cogs |-> r.Cogs, Opex |-> r.Opex, Other |-> r.Other,
      GrossProfit |-> gp,
      GrossMarginPct |-> FScale(FDiv(FInt(gp), FInt(r.Revenue)), 100),
      EBITDA |-> ebitda,
      EBITDAPct |-> FScale(FDiv(FInt(ebitda), FInt(r.Revenue)), 100)]

\* one row of enrich
enrich_row(r) ==
  LET gp == r.Revenue - r.Cogs
      ebitda == r.Revenue - r.Cogs - r.Opex
  IN [Revenue |-> r.Revenue, Cogs |-> r.Cogs, Opex |-> r.Opex, Other |-> r.Other,
      GrossProfit |-> gp,
      GrossMarginPct |-> FScale(np_where(r.Revenue # 0, FDiv(FInt(gp), FInt(r.Revenue)), NaN), 100),
      EBITDA |-> ebitda,
      EBITDAPct |-> FScale(np_where(r.Revenue # 0, FDiv(FInt(ebitda), FInt(r.Revenue)), NaN), 100)]

\* enrich of _build_pivots
enrich(pivot) == [d \in DOMAIN pivot |-> enrich_row(pivot[d])]

\* the category column of _opex_breakdown: split(":", n=1).str[1].fillna("Other").str.strip()
engine_category(account) ==
  IF FirstColon(account) = 0 THEN STR.Other ELSE strip(AfterColon(account))

\* the rows _opex_breakdown keeps
engine_opex_rows(df_usd, month_dt) ==
  SelectSeq(df_usd, LAMBDA r : r.date = month_dt /\ startswith(lower(r.account), STR.opex))

\* data.groupby("category")["amount_usd"].sum(): the set of [category, amount_usd]
engine_opex_groups(df_usd, month_dt) ==
  LET data == engine_opex_rows(df_usd, month_dt)
  IN {[category |-> c,
       amount_usd |-> SumAmount(SelectSeq(data, LAMBDA r : engine_category(r.account) = c))] :
        c \in {engine_category(data[i].account) : i \in DOMAIN data}}

\* _opex_breakdown: the tables sort_values("amount_usd", ascending=False) may return
\* (the order of equal amounts is not fixed by the sort)
_opex_breakdown(df_usd, month_dt) ==
  {t \in Orders(engine_opex_groups(df_usd, month_dt)) :
     \A i, j \in DOMAIN t : i < j => t[i].amount_usd >= t[j].amount_usd}

\* net burn of one month of the pivot
net_burn_of(r) == r.Opex + r.Cogs - r.Revenue

\* the last n index values of a date-indexed table (iloc[-n:] after sort_index)
LastDates(table, n) ==
  {d \in DOMAIN table : Cardinality({e \in DOMAIN table : e > d}) < n}

\* Series.mean() of a series of integers indexed by date: NaN when it is empty
Mean(series) ==
  IF DOMAIN series = {} THEN NaN
  ELSE LET ds == CHOOSE s \in Orders(DOMAIN series) : TRUE
       IN Num(SumSeq([i \in DOMAIN ds |-> series[ds[i]]]), Cardinality(DOMAIN series))

\* cash_df.sort_values("date").iloc[-1]["cash_balance"]: the rows that may come last
LatestCash(cash_df) ==
  {cash_df[i].cash_balance : i \in {i \in DOMAIN cash_df :
                                      \A j \in DOMAIN cash_df : cash_df[j].date <= cash_df[i].date}}

\* the trailing window of _cash_runway_months
RunwayWindow == 3

\* _cash_runway_months, for a cash table with at least one row
_cash_runway_months(latest_cash, pivot) ==
  LET recent == LastDates(pivot, RunwayWindow)
      net_burn == Mean([d \in recent |-> net_burn_of(pivot[d])])
  IN IF FLeqZero(net_burn) THEN Inf(1)
     ELSE FDiv(FInt(latest_cash), net_burn)

-----------------------------------------------------------------------------
(* agent/tools.py: FinanceTools *)

\* str.upper()
UPPER_OF == [c \in LOWER_SET |-> UPPER[CHOOSE i \in DOMAIN LOWER : LOWER[i] = c]]
upper_char(c) == IF c \in LOWER_SET THEN UPPER_OF[c] ELSE c
RECURSIVE upper(_)
upper(t) == IF t = <<>> THEN <<>> ELSE <<upper_char(t[1])>> \o upper(Tail(t))

\* the characters of the model in code-point order, for sorted() on strings
ASCII == <<" ", "%", "&", "-">> \o DIGITS \o <<":">> \o UPPER \o <<"_">> \o LOWER
Code(c) == CHOOSE i \in DOMAIN ASCII : ASCII[i] = c
\* a < b on strings
RECURSIVE StrLess(_, _)
StrLess(a, b) ==
  IF b = <<>> THEN FALSE
  ELSE IF a = <<>> THEN TRUE
  ELSE IF a[1] = b[1] THEN StrLess(Tail(a), Tail(b))
  ELSE Code(a[1]) < Code(b[1])
\* sorted(S) for a set of strings
SortedStrings(S) == CHOOSE s \in Orders(S) : \A i, j \in DOMAIN s : i < j => StrLess(s[i], s[j])

\* a stable sort of a table by date: df.sort_values("date")
SortByDate(rows) ==
  LET ds == {rows[i].date : i \in DOMAIN rows}
      asc == IF ds = {} THEN <<>>
             ELSE CHOOSE s \in Orders(ds) : \A i, j \in DOMAIN s : i < j => s[i] < s[j]
  IN Flatten([k \in DOMAIN asc |-> SelectSeq(rows, LAMBDA r : r.date = asc[k])])

\* the fx table FinanceTools.__init__ hands to _prepare_pl: currency upper-cased,
\* duplicates kept
FT_fx(fxrows) ==
  [i \in DOMAIN fxrows |-> [date |-> fxrows[i].date, currency |-> upper(fxrows[i].currency),
                            rate_to_usd |-> fxrows[i].rate_to_usd]]

\* the account_category column of _prepare_pl
account_category(account) ==
  LET account_group == BeforeColon(account)
  IN IF lower(account_group) = STR.opex /\ FirstColon(account) # 0
     THEN AfterColon(account) ELSE account_group

\* FinanceTools._prepare_pl (an empty table is returned as read)
_prepare_pl(df, fxrows) ==
  IF df = <<>> THEN df
  ELSE LET up == [i \in DOMAIN df |-> [df[i] EXCEPT !.currency = upper(@)]]
           usd == merge_usd(up, fxrows)
       IN SortByDate([i \in DOMAIN usd |->
            LET account == strip(usd[i].account)
            IN [date |-> usd[i].date, account |-> account, amount |-> usd[i].amount,
                currency |-> usd[i].currency, rate_to_usd |-> usd[i].rate_to_usd,
                amount_usd |-> usd[i].amount_usd,
                account_group |-> BeforeColon(account),
                account_category |-> account_category(account)]])

\* the column of the pivot of _summarise_pl named col at date d: the rows whose
\* account_group is exactly col
summary_column(df, d, col) ==
  SumAmount(SelectSeq(df, LAMBDA r : r.date = d /\ r.account_group = col))

\* _summarise_pl with EBITDA computed as Revenue - COGS, Opex left out
summarise_row_without_opex(df, d) ==
  LET Revenue == summary_column(df, d, STR.Revenue)
      COGS == summary_column(df, d, STR.COGS)
      Opex == summary_column(df, d, STR.Opex)
      gp == Revenue - COGS
      ebitda == Revenue - COGS
  IN [Revenue |-> Revenue, COGS |-> COGS, Opex |-> Opex,
      GrossProfit |-> gp,
      GrossMarginPct |-> np_where(Revenue # 0, FScale(FDiv(FInt(gp), FInt(Revenue)), 100), NaN),
      EBITDA |-> ebitda,
      EBITDAPct |-> np_where(Revenue # 0, FScale(FDiv(FInt(ebitda), FInt(Revenue)), 100), NaN)]

\* one row of _summarise_pl
summarise_row(df, d) ==
  LET Revenue == summary_column(df, d, STR.Revenue)
      COGS == summary_column(df, d, STR.COGS)
      Opex == summary_column(df, d, STR.Opex)
      gp == Revenue - COGS
      ebitda == Revenue - COGS - Opex
  IN [Revenue |-> Revenue, COGS |-> COGS, Opex |-> Opex,
      GrossProfit |-> gp,
      GrossMarginPct |-> np_where(Revenue # 0, FScale(FDiv(FInt(gp), FInt(Revenue)), 100), NaN),
      EBITDA |-> ebitda,
      EBITDAPct |-> np_where(Revenue # 0, FScale(FDiv(FInt(ebitda), FInt(Revenue)), 100), NaN)]

\* FinanceTools._summarise_pl: a table indexed by date (empty for an empty input)
_summarise_pl(df) == [d \in {df[i].date : i \in DOMAIN df} |-> summarise_row(df, d)]

\* FinanceTools._opex_breakdown: date -> (category -> amount), 0.0 where a category
\* has no row at a date
FT_opex_breakdown(df) ==
  LET opex == SelectSeq(df, LAMBDA r : lower(r.account_group) = STR.opex)
      cats == {opex[i].account_category : i \in DOMAIN opex}
  IN [d \in {opex[i].date : i \in DOMAIN opex} |->
        [c \in cats |-> SumAmount(SelectSeq(opex, LAMBDA r : r.date = d /\ r.account_category = c))]]

\* FinanceTools.__init__
FinanceTools(a_csv, b_csv, f_csv, c_csv) ==
  LET a == _prepare_pl(a_csv, FT_fx(f_csv))
      b == _prepare_pl(b_csv, FT_fx(f_csv))
  IN [actuals |-> a, budget |-> b, cash |-> SortByDate(c_csv),
      actual_summary |-> _summarise_pl(a), budget_summary |-> _summarise_pl(b),
      opex_actual |-> FT_opex_breakdown(a), opex_budget |-> FT_opex_breakdown(b)]

\* FinanceTools.metric_names
metric_names == {"revenue", "cogs", "gross profit", "gross margin %", "opex", "ebitda", "ebitda %"}

\* the value of a summary row for a metric, as a float
metric_value(row, metric) ==
  CASE metric = "revenue" -> FInt(row.Revenue)
    [] metric = "cogs" -> FInt(row.COGS)
    [] metric = "gross profit" -> FInt(row.GrossProfit)
    [] metric = "gross margin %" -> row.GrossMarginPct
    [] metric = "opex" -> FInt(row.Opex)
    [] metric = "ebitda" -> FInt(row.EBITDA)
    [] metric = "ebitda %" -> row.EBITDAPct

\* _series_for_metric(...).get(month, nan), NaN too for an empty summary
series_get(summary, metric, month) ==
  IF month \in DOMAIN summary THEN metric_value(summary[month], metric) ELSE NaN

\* FinanceTools.metric_point
metric_point(self, metric, month) ==
  LET actual == series_get(self.actual_summary, metric, month)
      budget_v == series_get(self.budget_summary, metric, month)
      variance == IF ~IsNaN(actual) /\ ~IsNaN(budget_v) THEN FSub(actual, budget_v) ELSE NaN
      variance_pct == IF ~IsNaN(variance) /\ ~FEq(budget_v, FInt(0))
                      THEN FScale(FDiv(variance, budget_v), 100) ELSE NaN
  IN [actual |-> actual, budget |-> budget_v, variance |-> variance,
      variance_pct |-> variance_pct]

\* FinanceTools.opex_breakdown: rows [Category, Actual, Budget] in sorted(category) order
opex_breakdown(self, month) ==
  LET has_a == month \in DOMAIN self.opex_actual
      has_b == month \in DOMAIN self.opex_budget
      cols_a == IF has_a THEN DOMAIN self.opex_actual[month] ELSE {}
      cols_b == IF has_b THEN DOMAIN self.opex_budget[month] ELSE {}
      categories == SortedStrings(cols_a \cup cols_b)
  IN [i \in DOMAIN categories |->
        LET cat == categories[i]
        IN [Category |-> cat,
            Actual |-> IF cat \in cols_a THEN self.opex_actual[month][cat] ELSE 0,
            Budget |-> IF cat \in cols_b THEN self.opex_budget[month][cat] ELSE 0]]

\* the per-month burn of cash_runway: (-ebitda).clip(lower=0)
clipped_burn(ebitda) == IF -ebitda < 0 THEN 0 ELSE -ebitda

\* FinanceTools.cash_runway, given the balance of the latest cash row
cash_runway(self, latest_cash, trailing_months) ==
  IF self.cash = <<>> \/ DOMAIN self.actual_summary = {}
  THEN [cash |-> NaN, burn |-> NaN, runway |-> NaN]
  ELSE LET all == DOMAIN self.actual_summary
           window == IF trailing_months > 0 THEN LastDates(self.actual_summary, trailing_months)
                     ELSE all
           mean == Mean([d \in window |-> clipped_burn(self.actual_summary[d].EBITDA)])
           avg_burn == IF window # {} THEN mean ELSE FInt(0)
       IN [cash |-> FInt(latest_cash), burn |-> avg_burn,
           runway |-> IF FLeqZero(avg_burn) THEN Inf(1)
                      ELSE FDiv(FInt(latest_cash), avg_burn)]

-----------------------------------------------------------------------------
(* Formatting of floats in the answer text *)

\* the integer nearest to n/d, halves to even
RoundDiv(n, d) ==
  LET nn == IF d < 0 THEN -n ELSE n
      dd == IF d < 0 THEN -d ELSE d
      q == nn \div dd
      r == nn - q * dd
  IN IF 2 * r < dd THEN q
     ELSE IF 2 * r > dd THEN q + 1
     ELSE IF q % 2 = 0 THEN q ELSE q + 1

\* format(x, ".<places>f") for places in {0, 1}: the rendered number in units of
\* 10^-places, or the text Python prints for NaN ("nan") and infinity ("inf")
fmt(x, places) ==
  IF x.k = "num" THEN [g |-> "num", v |-> RoundDiv(x.n * (IF places = 1 THEN 10 ELSE 1), x.d)]
  ELSE [g |-> x.k, v |-> x.n]

-----------------------------------------------------------------------------
(* build_engine: the tables answer() closes over (the same code in both engines) *)

build_engine(a_csv, b_csv, f_csv, c_csv) ==
  LET fxd == _load_fx(f_csv)
      actuals_usd == _to_usd(a_csv, fxd)
      budget_usd == _to_usd(b_csv, fxd)
  IN [actuals_pivot |-> enrich(pivot_table(actuals_usd)),
      budget_pivot |-> enrich(pivot_table(budget_usd)),
      actuals_enriched |-> actuals_usd,
      cash |-> c_csv]

\* r"last\s+(\d+)\s+month" of the Gross Margin trend branch: the N, or None
EngineLastN(ql) ==
  LET s1(i) == RunEnd(SPACE_SET, ql, i + 4)
      d1(i) == RunEnd(DIGIT_SET, ql, s1(i) + 1)
      s2(i) == RunEnd(SPACE_SET, ql, d1(i) + 1)
      at == {i \in 1..Len(ql) :
               /\ MatchAt(STR.last, ql, i)
               /\ s1(i) >= i + 4
               /\ d1(i) >= s1(i) + 1
               /\ s2(i) >= d1(i) + 1
               /\ MatchAt(<<"m","o","n","t","h">>, ql, s2(i) + 1)}
  IN IF at = {} THEN None
     ELSE LET i == Leftmost(at) IN Some(ToInt(SubSeq(ql, s1(i) + 1, d1(i))))

\* what answer() reads from the question text
QuestionFacts(q) ==
  LET ql == lower(q)
  IN [month |-> _extract_month(q),
      trend |-> _is_trend(q),
      compare_budget |-> _vs_budget(q),
      cash_runway |-> EngineRunwayCheck(ql),
      gross_margin |-> contains(STR.gross_margin, ql),
      breakdown |-> EngineBreakdownCheck(ql),
      ebitda |-> contains(STR.ebitda, ql),
      last_n |-> EngineLastN(ql)]

Raised(error) == [raised |-> TRUE, error |-> error]
Returned(text, chart, table) ==
  [raised |-> FALSE, text |-> text, chart |-> chart, table |-> table]
\* the result dict has no "table" key
NoTable == [key |-> FALSE]
Table(t) == [key |-> TRUE, value |-> t]

\* the outcome of a chart helper: the figure, or the exception it raises
NoChart == [raised |-> FALSE, fig |-> "None"]
\* _line_chart returns the Figure
_line_chart == [raised |-> FALSE, fig |-> "Figure"]
\* _bar_chart: ax.tick_params(axis="x", rotation=45, ha="right") is refused by
\* matplotlib ("keyword ha is not recognized"), so the call raises ValueError
_bar_chart == [raised |-> TRUE, error |-> "ValueError"]

\* the text and chart of a trend branch
TrendText(metric, compare_budget) ==
  [kind |-> "trend", metric |-> metric, vs_budget |-> compare_budget]

\* the point text with the variance percentage taken of the actual value
PointText_of_actual(metric, month_dt, actual_value, budget_value) ==
  LET variance == actual_value - budget_value
      variance_pct == IF budget_value # 0
                      THEN FScale(FDiv(FInt(variance), FInt(actual_value)), 100) ELSE NaN
  IN [kind |-> "point", metric |-> metric, month |-> month_dt,
      actual |-> fmt(FInt(actual_value), 0), budget |-> fmt(FInt(budget_value), 0),
      variance |-> fmt(FInt(variance), 0), variance_pct |-> fmt(variance_pct, 1)]

\* the text of the EBITDA and Revenue point branches
PointText(metric, month_dt, actual_value, budget_value) ==
  LET variance == actual_value - budget_value
      variance_pct == IF budget_value # 0
                      THEN FScale(FDiv(FInt(variance), FInt(budget_value)), 100) ELSE NaN
  IN [kind |-> "point", metric |-> metric, month |-> month_dt,
      actual |-> fmt(FInt(actual_value), 0), budget |-> fmt(FInt(budget_value), 0),
      variance |-> fmt(FInt(variance), 0), variance_pct |-> fmt(variance_pct, 1)]

\* the text of the Gross Margin % point branch
GrossMarginText(month_dt, actual, budget_value) ==
  [kind |-> "point", metric |-> "Gross Margin %", month |-> month_dt,
   actual |-> fmt(actual, 1), budget |-> fmt(budget_value, 1),
   variance |-> fmt(FSub(actual, budget_value), 1)]

\* the text of the cash-runway branch
RunwayText(months) ==
  [kind |-> "cash_runway",
   months |-> IF months.k = "inf" /\ months.n > 0 THEN [g |-> "infinity sign", v |-> 0]
              ELSE fmt(months, 1)]

\* the point branches after the month is fixed: .loc raises KeyError on a month
\* that is no index value of the table it reads
PointBranch(eng, f, month_dt) ==
  IF month_dt \notin DOMAIN eng.actuals_pivot \/ month_dt \notin DOMAIN eng.budget_pivot
  THEN Raised("KeyError")
  ELSE LET a == eng.actuals_pivot[month_dt]
           b == eng.budget_pivot[month_dt]
       IN IF f.gross_margin
          THEN Returned(GrossMarginText(month_dt, a.GrossMarginPct, b.GrossMarginPct),
                        "None", NoTable)
          ELSE IF f.ebitda
          THEN Returned(PointText("EBITDA", month_dt, a.EBITDA, b.EBITDA), "None", NoTable)
          ELSE Returned(PointText("Revenue", month_dt, a.Revenue, b.Revenue), "None", NoTable)

\* the rows of a series that are not NaN, as the set of their dates
dropna(series) == {d \in DOMAIN series : ~IsNaN(series[d])}

\* agent/engine.py, answer(): the set of results the call may give (one, but for
\* the order of equal amounts in the breakdown table and of equal dates in cash)
answer(eng, f, plot) ==
  IF DOMAIN eng.actuals_pivot = {} THEN {Raised("KeyError")}
  ELSE
  LET latest == Max(DOMAIN eng.actuals_pivot)
      m0 == IF f.month # None THEN f.month[1] ELSE latest
      month_dt == IF m0 \notin DOMAIN eng.actuals_pivot THEN latest ELSE m0
  IN IF f.cash_runway
     THEN IF eng.cash = <<>> THEN {Raised("IndexError")}
          ELSE {Returned(RunwayText(_cash_runway_months(c, eng.actuals_pivot)), "None", NoTable) :
                  c \in LatestCash(eng.cash)}
     ELSE IF f.gross_margin /\ f.trend
     THEN LET series == dropna([d \in DOMAIN eng.actuals_pivot |-> eng.actuals_pivot[d].GrossMarginPct])
              \* series.iloc[-last_n:]; iloc[-0:] is the whole series
              shown == IF f.last_n # None /\ f.last_n[1] > 0
                       THEN {d \in series : Cardinality({e \in series : e > d}) < f.last_n[1]}
                       ELSE series
          IN {Returned(TrendText("Gross Margin %", f.compare_budget),
                       IF plot /\ shown # {} THEN _line_chart.fig ELSE "None", NoTable)}
     ELSE IF f.gross_margin THEN {PointBranch(eng, f, month_dt)}
     ELSE IF f.breakdown
     THEN {LET fig == IF plot /\ t # <<>> THEN _bar_chart ELSE NoChart
           IN IF fig.raised THEN Raised(fig.error)
              ELSE Returned([kind |-> "opex_total", month |-> month_dt,
                             total |-> fmt(FInt(SumSeq([i \in DOMAIN t |-> t[i].amount_usd])), 0)],
                            fig.fig, Table(IF t # <<>> THEN Some(t) ELSE None)) :
             t \in _opex_breakdown(eng.actuals_enriched, month_dt)}
     ELSE IF f.trend
     THEN {Returned(TrendText(IF f.ebitda THEN "EBITDA" ELSE "Revenue", f.compare_budget),
                    IF plot THEN _line_chart.fig ELSE "None", NoTable)}
     ELSE {PointBranch(eng, f, month_dt)}

\* engine.py, answer(): as above, with the differences of that file: the month is
\* not replaced when the table lacks it, the trend branches report "rendered"
\* whatever plotting is, the breakdown reports "rendered" for a non-empty table
\* and always returns the table
legacy_answer(eng, f, plot) ==
  IF DOMAIN eng.actuals_pivot = {} THEN {Raised("KeyError")}
  ELSE
  LET month_dt == IF f.month # None THEN f.month[1] ELSE Max(DOMAIN eng.actuals_pivot)
  IN IF f.cash_runway
     THEN IF eng.cash = <<>> THEN {Raised("IndexError")}
          ELSE {Returned(RunwayText(_cash_runway_months(c, eng.actuals_pivot)), "None", NoTable) :
                  c \in LatestCash(eng.cash)}
     ELSE IF f.gross_margin /\ f.trend
     THEN {Returned(TrendText("Gross Margin %", f.compare_budget), "rendered", NoTable)}
     ELSE IF f.gross_margin THEN {PointBranch(eng, f, month_dt)}
     ELSE IF f.breakdown
     THEN {Returned([kind |-> "opex_total", month |-> month_dt,
                     total |-> fmt(FInt(SumSeq([i \in DOMAIN t |-> t[i].amount_usd])), 0)],
                    IF t # <<>> THEN "rendered" ELSE "None",
                    Table(Some(t))) :
             t \in _opex_breakdown(eng.actuals_enriched, month_dt)}
     ELSE IF f.trend
     THEN {Returned(TrendText(IF f.ebitda THEN "EBITDA" ELSE "Revenue", f.compare_budget),
                    "rendered", NoTable)}
     ELSE {PointBranch(eng, f, month_dt)}

-----------------------------------------------------------------------------
(* Questions: up to MaxPhrases phrases joined by single spaces *)

MaxPhrases == 2

\* the phrases questions are made of
PHRASE ==
  [cash |-> <<"c","a","s","h">>,
   runway |-> <<"r","u","n","w","a","y">>,
   opex |-> <<"O","p","e","x">>,
   breakdown |-> <<"b","r","e","a","k","d","o","w","n">>,
   by_category |-> <<"b","y"," ","c","a","t","e","g","o","r","y">>,
   trend |-> <<"t","r","e","n","d">>,
   june_2025 |-> <<"J","u","n","e"," ","2","0","2","5">>,
   marketing_2025 |-> <<"m","a","r","k","e","t","i","n","g"," ","2","0","2","5">>,
   iso_2025_07 |-> <<"2","0","2","5","-","0","7">>,
   budget |-> <<"b","u","d","g","e","t">>,
   ebitda_margin |-> <<"E","B","I","T","D","A"," ","m","a","r","g","i","n">>,
   top_line |-> <<"t","o","p"," ","l","i","n","e">>,
   last_3_months |-> <<"l","a","s","t"," ","3"," ","m","o","n","t","h","s">>,
   gross_margin |-> <<"g","r","o","s","s"," ","m","a","r","g","i","n">>,
   break_down |-> <<"B","r","e","a","k"," ","d","o","w","n">>,
   jun_0000 |-> <<"j","u","n"," ","0","0","0","0">>,
   ebitda_pct |-> <<"e","b","i","t","d","a"," ","%">>,
   gross_profit |-> <<"g","r","o","s","s"," ","p","r","o","f","i","t">>,
   costs |-> <<"c","o","s","t","s">>,
   sales |-> <<"s","a","l","e","s">>]

PHRASES == <<PHRASE.cash, PHRASE.runway, PHRASE.opex, PHRASE.breakdown, PHRASE.by_category, PHRASE.trend,
             PHRASE.june_2025, PHRASE.marketing_2025, PHRASE.iso_2025_07, PHRASE.budget,
             PHRASE.ebitda_margin, PHRASE.top_line, PHRASE.last_3_months, PHRASE.gross_margin,
             PHRASE.break_down, PHRASE.jun_0000, PHRASE.ebitda_pct, PHRASE.gross_profit,
             PHRASE.costs, PHRASE.sales>>

Questions ==
  {Join([i \in DOMAIN s |-> PHRASES[s[i]]]) :
     s \in UNION {[1..n -> DOMAIN PHRASES] : n \in 0..MaxPhrases}}

\* the questions put to the two engines
EngineQuestions ==
  {Join(s) : s \in {<<PHRASE.cash, PHRASE.runway>>,
                    <<PHRASE.june_2025>>,
                    <<PHRASE.june_2025, PHRASE.budget>>,
                    <<PHRASE.marketing_2025>>,
                    <<PHRASE.gross_margin, PHRASE.june_2025>>,
                    <<PHRASE.gross_margin, PHRASE.trend, PHRASE.last_3_months>>,
                    <<PHRASE.opex, PHRASE.breakdown, PHRASE.june_2025>>,
                    <<PHRASE.opex, PHRASE.by_category, PHRASE.iso_2025_07>>,
                    <<PHRASE.ebitda_margin, PHRASE.iso_2025_07>>,
                    <<PHRASE.ebitda_margin, PHRASE.trend, PHRASE.budget>>,
                    <<PHRASE.trend>>,
                    <<PHRASE.jun_0000>>}}

EngineFacts == [q \in EngineQuestions |-> QuestionFacts(q)]

-----------------------------------------------------------------------------
(* The CSV files the model draws *)

c_USD == <<"U","S","D">>
c_EUR == <<"E","U","R">>
\* the account names of the ledger rows drawn
ACCOUNT ==
  [Revenue_Product |-> <<"R","e","v","e","n","u","e",":","P","r","o","d","u","c","t">>,
   revenue_services |-> <<"r","e","v","e","n","u","e",":","S","e","r","v","i","c","e","s">>,
   COGS |-> <<"C","O","G","S">>,
   Cogs_Hosting |-> <<"C","o","g","s",":","H","o","s","t","i","n","g">>,
   Opex_Marketing |-> <<"O","p","e","x",":","M","a","r","k","e","t","i","n","g">>,
   opex_marketing |-> <<"o","p","e","x",":","M","a","r","k","e","t","i","n","g">>,
   Opex |-> <<"O","p","e","x">>,
   OPEX_Admin |-> <<"O","P","E","X",":"," ","A","d","m","i","n">>,
   Other_Tax |-> <<"O","t","h","e","r",":","T","a","x">>]

Row(date, account, amount) ==
  [date |-> date, account |-> account, amount |-> amount, currency |-> c_USD]
CashRow(date, cash_balance) == [date |-> date, cash_balance |-> cash_balance]

APR == ym(2025, 4)
MAY == ym(2025, 5)
JUN == ym(2025, 6)
JUL == ym(2025, 7)

\* the tables of at most k rows drawn from the rows of U, one row order per
\* multiset of rows (the loaders only sum and group the rows of a ledger)
Ledgers(U, k) ==
  {[i \in DOMAIN s |-> U[s[i]]] :
     s \in {s \in UNION {[1..n -> DOMAIN U] : n \in 0..k} :
              \A i, j \in DOMAIN s : i < j => s[i] <= s[j]}}

\* the rows of actuals.csv and budget.csv together
MaxRows == 2

\* the candidate rows of a ledger, for the monthly tables and the Opex breakdown
TableRows ==
  <<Row(JUN, ACCOUNT.Revenue_Product, 50), Row(JUL, ACCOUNT.Revenue_Product, 80),
    Row(JUN, ACCOUNT.revenue_services, 20), Row(JUL, ACCOUNT.revenue_services, 20),
    Row(JUN, ACCOUNT.COGS, 30), Row(JUL, ACCOUNT.Cogs_Hosting, 10),
    Row(JUN, ACCOUNT.Opex_Marketing, 40), Row(JUL, ACCOUNT.Opex_Marketing, 25),
    Row(JUN, ACCOUNT.opex_marketing, 15), Row(JUL, ACCOUNT.OPEX_Admin, 5),
    Row(JUN, ACCOUNT.Opex, 35), Row(JUL, ACCOUNT.Opex, 60),
    Row(JUN, ACCOUNT.Other_Tax, 7), Row(JUL, ACCOUNT.Other_Tax, 7)>>

TableInputs ==
  {[actuals |-> a, budget |-> b, fx |-> <<>>, cash |-> <<CashRow(JUN, 100)>>] :
     <<a, b>> \in {p \in Ledgers(TableRows, MaxRows) \X Ledgers(TableRows, MaxRows) :
                     Len(p[1]) + Len(p[2]) <= MaxRows}}

\* the rows of actuals.csv for the cash runway, up to four months of history
MaxRunwayRows == 4

RunwayRows ==
  <<Row(APR, ACCOUNT.Revenue_Product, 30), Row(APR, ACCOUNT.Opex, 50),
    Row(MAY, ACCOUNT.Revenue_Product, 30), Row(MAY, ACCOUNT.Opex, 50),
    Row(JUN, ACCOUNT.Revenue_Product, 30), Row(JUN, ACCOUNT.Opex, 50),
    Row(JUL, ACCOUNT.Revenue_Product, 30), Row(JUL, ACCOUNT.Opex, 50)>>

CashTables == {<<>>, <<CashRow(JUN, 120)>>, <<CashRow(JUL, 240), CashRow(MAY, 600)>>}

RunwayInputs ==
  {[actuals |-> a, budget |-> <<>>, fx |-> <<>>, cash |-> c] :
     a \in Ledgers(RunwayRows, MaxRunwayRows), c \in CashTables}

\* a row of fx.csv
FxRow(date, currency, rate_to_usd) ==
  [date |-> date, currency |-> currency, rate_to_usd |-> rate_to_usd]

\* the rows of fx.csv
MaxFxRows == 2

\* the candidate rows of fx.csv: two rates for (2025-06, EUR), one for (2025-07, EUR)
FxRows == <<FxRow(JUN, c_EUR, 2), FxRow(JUN, c_EUR, 3), FxRow(JUL, c_EUR, 2)>>

\* the fx tables of at most MaxFxRows rows, in every row order
FxTables ==
  {[i \in DOMAIN s |-> FxRows[s[i]]] :
     s \in UNION {[1..n -> DOMAIN FxRows] : n \in 0..MaxFxRows}}

\* the candidate rows of a ledger in two currencies
FxLedgerRows ==
  <<[Row(JUN, ACCOUNT.Revenue_Product, 100) EXCEPT !.currency = c_EUR],
    [Row(JUL, ACCOUNT.Opex_Marketing, 10) EXCEPT !.currency = c_EUR],
    Row(JUN, ACCOUNT.Revenue_Product, 50)>>

FxInputs ==
  {[actuals |-> a, budget |-> a, fx |-> f, cash |-> <<CashRow(JUN, 100)>>] :
     a \in Ledgers(FxLedgerRows, MaxRows), f \in FxTables}

\* the candidate rows of the two ledgers put to answer()
EngineActualRows ==
  <<Row(JUN, ACCOUNT.Revenue_Product, 100000), Row(JUL, ACCOUNT.Revenue_Product, 120000),
    Row(JUN, ACCOUNT.Opex_Marketing, 30000), Row(JUL, ACCOUNT.Opex_Marketing, 30000),
    Row(JUN, ACCOUNT.Cogs_Hosting, 40000), Row(JUL, ACCOUNT.Opex, 30000)>>
EngineBudgetRows ==
  <<Row(JUN, ACCOUNT.Revenue_Product, 90000), Row(JUL, ACCOUNT.Revenue_Product, 90000),
    Row(JUN, ACCOUNT.Opex_Marketing, 20000), Row(JUL, ACCOUNT.Cogs_Hosting, 50000)>>

EngineInputs ==
  {[actuals |-> a, budget |-> b, fx |-> <<>>,
    cash |-> <<CashRow(JUL, 240000), CashRow(JUN, 300000)>>] :
     <<a, b>> \in {p \in Ledgers(EngineActualRows, MaxRows) \X Ledgers(EngineBudgetRows, MaxRows) :
                     Len(p[1]) >= 1 /\ Len(p[1]) + Len(p[2]) <= MaxRows}}

NotCalled == [called |-> FALSE]

\* the state after build_engine and FinanceTools have been constructed on the files
Loaded(files) ==
  /\ actuals_csv = files.actuals /\ budget_csv = files.budget
  /\ fx_csv = files.fx /\ cash_csv = files.cash
  /\ engine = build_engine(files.actuals, files.budget, files.fx, files.cash)
  /\ tools = FinanceTools(files.actuals, files.budget, files.fx, files.cash)

NoFiles == [actuals |-> <<>>, budget |-> <<>>, fx |-> <<>>, cash |-> <<>>]

-----------------------------------------------------------------------------
(* SpecPlanner: the planner and the parsing helpers applied to one question *)

InitPlanner ==
  /\ question \in Questions
  /\ plotting = FALSE
  /\ plan = NotCalled /\ extracted = NotCalled
  /\ result = NotCalled /\ tool_out = NotCalled
  /\ Loaded(NoFiles)

\* Planner().parse(question)
Parse ==
  /\ plan = NotCalled
  /\ plan' = parse(question)
  /\ UNCHANGED <<question, plotting, extracted, result, tool_out, csvs, engine, tools>>

\* the first lines of answer(): what it reads from the question alone
ExtractMonth ==
  /\ extracted = NotCalled
  /\ extracted' = QuestionFacts(question)
  /\ UNCHANGED <<question, plotting, plan, result, tool_out, csvs, engine, tools>>

NextPlanner == Parse \/ ExtractMonth

SpecPlanner == InitPlanner /\ [][NextPlanner]_vars

-----------------------------------------------------------------------------
(* SpecData: the tables built from the files, and one call on them *)

MaxTrailing == 4

InitData ==
  /\ question = <<>> /\ plotting = FALSE
  /\ plan = NotCalled /\ extracted = NotCalled
  /\ result = NotCalled /\ tool_out = NotCalled
  /\ \E files \in TableInputs \cup RunwayInputs \cup FxInputs : Loaded(files)

Call(out) ==
  /\ tool_out = NotCalled
  /\ tool_out' = out
  /\ UNCHANGED <<question, plotting, plan, extracted, result, csvs, engine, tools>>

\* FinanceTools.cash_runway(trailing_months)
CashRunway ==
  \E n \in 0..MaxTrailing, c \in LatestCash(tools.cash) \cup {0} :
     /\ (LatestCash(tools.cash) = {} \/ c \in LatestCash(tools.cash))
     /\ Call([op |-> "cash_runway", trailing_months |-> n,
              out |-> cash_runway(tools, c, n)])

\* _cash_runway_months(cash, actuals_pivot) of the engines
EngineCashRunway ==
  \E c \in LatestCash(engine.cash) :
     Call([op |-> "_cash_runway_months", latest_cash |-> c,
           out |-> _cash_runway_months(c, engine.actuals_pivot)])

\* FinanceTools.opex_breakdown(month)
OpexBreakdown ==
  \E m \in {MAY, JUN, JUL} :
     Call([op |-> "opex_breakdown", month |-> m, out |-> opex_breakdown(tools, m)])

\* _opex_breakdown(actuals_enriched, month_dt) of the engines
EngineOpexBreakdown ==
  \E m \in {MAY, JUN, JUL} : \E t \in _opex_breakdown(engine.actuals_enriched, m) :
     Call([op |-> "_opex_breakdown", month |-> m, out |-> t])

\* FinanceTools.metric_point(metric, month)
MetricPoint ==
  \E metric \in metric_names, m \in {JUN, JUL} :
     Call([op |-> "metric_point", metric |-> metric, month |-> m,
           out |-> metric_point(tools, metric, m)])

NextData == CashRunway \/ EngineCashRunway \/ OpexBreakdown \/ EngineOpexBreakdown
            \/ MetricPoint

SpecData == InitData /\ [][NextData]_vars

-----------------------------------------------------------------------------
(* Spec: the two engines answering questions on loaded files *)

Init ==
  /\ question = <<>> /\ plotting = FALSE
  /\ plan = NotCalled /\ extracted = NotCalled
  /\ result = NotCalled /\ tool_out = NotCalled
  /\ \E files \in EngineInputs : Loaded(files)

\* the calls of answer() made on one engine
MaxCalls == 2

\* the number of calls made so far
Calls == IF result = NotCalled THEN 0 ELSE result.n

\* a call of answer() that sorts the cash table of the engine in place
Answered_sorting_cash(impl, q, p, out) ==
  /\ Calls < MaxCalls
  /\ question' = q
  /\ plotting' = p
  /\ result' = [called |-> TRUE, impl |-> impl, out |-> out, n |-> Calls + 1]
  /\ engine' = [engine EXCEPT !.cash = SortByDate(@)]
  /\ UNCHANGED <<plan, extracted, tool_out, csvs, tools>>

\* a call of answer(): the result is returned, the tables the closure holds are
\* only read
Answered(impl, q, p, out) ==
  /\ Calls < MaxCalls
  /\ question' = q
  /\ plotting' = p
  /\ result' = [called |-> TRUE, impl |-> impl, out |-> out, n |-> Calls + 1]
  /\ UNCHANGED <<plan, extracted, tool_out, csvs, engine, tools>>

\* agent/engine.py: answer(question, plotting)
Answer ==
  \E q \in EngineQuestions, p \in BOOLEAN :
     \E out \in answer(engine, EngineFacts[q], p) : Answered("agent", q, p, out)

\* engine.py: answer(q, plotting)
LegacyAnswer ==
  \E q \in EngineQuestions, p \in BOOLEAN :
     \E out \in legacy_answer(engine, EngineFacts[q], p) : Answered("legacy", q, p, out)

Next == Answer \/ LegacyAnswer

Spec == Init /\ [][Next]_vars

-----------------------------------------------------------------------------
(* Claims *)

\* the class the specification gives an account: a case-insensitive prefix match
\* on the text before any colon
ClaimedClass(account) ==
  LET g == lower(BeforeColon(account))
  IN IF startswith(g, STR.revenue) THEN "Revenue"
     ELSE IF startswith(g, STR.cogs) THEN "COGS"
     ELSE IF startswith(g, STR.opex) THEN "Opex"
     ELSE "Other"

\* the sum of the USD amounts of the rows of a date and a claimed class
ClaimedSum(rows, d, class) ==
  SumAmount(SelectSeq(rows, LAMBDA r : r.date = d /\ ClaimedClass(r.account) = class))

\* the runway the specification states: the plain mean of a series of monthly
\* burns over its last n rows, infinite when that mean is <= 0
ClaimedRunway(burn, n, latest_cash) ==
  LET avg_burn == Mean([d \in LastDates(burn, n) |-> burn[d]])
  IN IF FLeqZero(avg_burn) THEN Inf(1) ELSE FDiv(FInt(latest_cash), avg_burn)

\* Opex + COGS - Revenue of each month of FinanceTools.actual_summary
ClaimedToolsBurn ==
  [d \in DOMAIN tools.actual_summary |->
     tools.actual_summary[d].Opex + tools.actual_summary[d].COGS
       - tools.actual_summary[d].Revenue]

\* Opex + COGS - Revenue of each month of the engine's actual pivot
ClaimedEngineBurn ==
  [d \in DOMAIN engine.actuals_pivot |->
     engine.actuals_pivot[d].Opex + engine.actuals_pivot[d].Cogs
       - engine.actuals_pivot[d].Revenue]

\* C1: the runway is infinite when the plain mean of Opex + COGS - Revenue over the
\* last min(N, months) rows is <= 0 and latest_cash / that mean otherwise, for
\* FinanceTools.cash_runway(N) and for _cash_runway_months (N = 3).
C1_RunwayIsCashOverMeanBurn ==
  /\ (/\ tool_out # NotCalled
      /\ tool_out.op = "cash_runway"
      /\ tool_out.trailing_months > 0
      /\ tools.cash # <<>>
      /\ DOMAIN tools.actual_summary # {})
     => \E c \in LatestCash(tools.cash) :
          tool_out.out.runway =
            ClaimedRunway(ClaimedToolsBurn, tool_out.trailing_months, c)
  /\ (/\ tool_out # NotCalled
      /\ tool_out.op = "_cash_runway_months"
      /\ DOMAIN engine.actuals_pivot # {})
     => tool_out.out =
          ClaimedRunway(ClaimedEngineBurn, RunwayWindow, tool_out.latest_cash)

\* C2: in the monthly tables of the engine and of FinanceTools, the Revenue, COGS
\* and Opex columns of a month are the sums of the rows whose account class,
\* decided on the lower-cased account group, is Revenue, COGS or Opex; accounts
\* that differ only in letter case fall in the same column and Other adds nothing.
C2_ClassificationIgnoresCase ==
  /\ \A d \in DOMAIN engine.actuals_pivot :
       /\ engine.actuals_pivot[d].Revenue = ClaimedSum(engine.actuals_enriched, d, "Revenue")
       /\ engine.actuals_pivot[d].Cogs = ClaimedSum(engine.actuals_enriched, d, "COGS")
       /\ engine.actuals_pivot[d].Opex = ClaimedSum(engine.actuals_enriched, d, "Opex")
  /\ \A d \in DOMAIN tools.actual_summary :
       /\ tools.actual_summary[d].Revenue = ClaimedSum(tools.actuals, d, "Revenue")
       /\ tools.actual_summary[d].COGS = ClaimedSum(tools.actuals, d, "COGS")
       /\ tools.actual_summary[d].Opex = ClaimedSum(tools.actuals, d, "Opex")
  /\ \A d \in DOMAIN tools.budget_summary :
       /\ tools.budget_summary[d].Revenue = ClaimedSum(tools.budget, d, "Revenue")
       /\ tools.budget_summary[d].COGS = ClaimedSum(tools.budget, d, "COGS")
       /\ tools.budget_summary[d].Opex = ClaimedSum(tools.budget, d, "Opex")

\* C3: for a month present in the data, the amounts of the Opex breakdown of that
\* month sum to the Opex column of the monthly table of that month, in the engine
\* and in FinanceTools (Actual and Budget columns).
C3_BreakdownSumsToOpexColumn ==
  /\ (/\ tool_out # NotCalled
      /\ tool_out.op = "_opex_breakdown"
      /\ tool_out.month \in DOMAIN engine.actuals_pivot)
     => SumSeq([i \in DOMAIN tool_out.out |-> tool_out.out[i].amount_usd])
          = engine.actuals_pivot[tool_out.month].Opex
  /\ (/\ tool_out # NotCalled
      /\ tool_out.op = "opex_breakdown"
      /\ tool_out.month \in DOMAIN tools.actual_summary)
     => SumSeq([i \in DOMAIN tool_out.out |-> tool_out.out[i].Actual])
          = tools.actual_summary[tool_out.month].Opex
  /\ (/\ tool_out # NotCalled
      /\ tool_out.op = "opex_breakdown"
      /\ tool_out.month \in DOMAIN tools.budget_summary)
     => SumSeq([i \in DOMAIN tool_out.out |-> tool_out.out[i].Budget])
          = tools.budget_summary[tool_out.month].Opex

\* the cash-runway condition the specification states
ClaimedRunwayCheck(ql) ==
  contains(STR.cash_runway, ql) \/ (contains(STR.cash, ql) /\ contains(STR.runway, ql))

\* the breakdown condition the specification states
ClaimedBreakdownCheck(ql) ==
  contains(STR.break_down, ql) \/ contains(STR.breakdown, ql) \/ contains(STR.by_category, ql)

\* C4: Planner.parse returns intent cash_runway exactly when the lower-cased
\* question contains "cash runway" or both "cash" and "runway", and the engine's
\* cash-runway branch is taken on the same condition.
C4_CashRunwayExactlyOnCashAndRunway ==
  /\ plan # NotCalled
     => ((~plan.raised /\ plan.intent = "cash_runway") <=> ClaimedRunwayCheck(lower(question)))
  /\ extracted # NotCalled
     => (extracted.cash_runway <=> ClaimedRunwayCheck(lower(question)))

\* C5: a question that fails the cash-runway check and contains "break down",
\* "breakdown" or "by category" is parsed to intent breakdown with metric opex and
\* the month of the question, whatever trend keyword it holds.
C5_BreakdownPhrasesGiveBreakdown ==
  (/\ plan # NotCalled
   /\ ~ClaimedRunwayCheck(lower(question))
   /\ ClaimedBreakdownCheck(lower(question)))
  => /\ ~plan.raised
     /\ plan.intent = "breakdown"
     /\ plan.metric = "opex"
     /\ plan.month = _detect_month(question).month

\* the text and table of two results agree
SameTextAndTable(o1, o2) ==
  /\ o1.raised = o2.raised
  /\ ~o1.raised => (o1.text = o2.text /\ o1.table = o2.table)

\* C6: a call with plotting = false returns the text and table of the same call
\* with plotting = true, and reports no chart, for every intent and both engines.
C6_PlottingOffOnlyDropsTheChart ==
  (result # NotCalled /\ ~plotting)
  => /\ ~result.out.raised => result.out.chart = "None"
     /\ \E o \in (IF result.impl = "agent"
                  THEN answer(engine, EngineFacts[question], TRUE)
                  ELSE legacy_answer(engine, EngineFacts[question], TRUE)) :
          SameTextAndTable(o, result.out)

\* the rendered numbers of an answer text
Rendered(text) == {text[k] : k \in DOMAIN text \ {"kind", "metric", "month", "vs_budget"}}

\* C7: the text of a point answer never prints an undefined value as "nan".
C7_PointTextNeverPrintsNaN ==
  (result # NotCalled /\ ~result.out.raised /\ result.out.text.kind = "point")
  => \A x \in Rendered(result.out.text) : x.g # "nan"

\* C8: month extraction never raises: Planner.parse returns a Plan for every
\* question, with month None when the matched text is no calendar month, and the
\* engine's _extract_month falls back to None.
C8_MonthExtractionNeverRaises ==
  /\ plan # NotCalled => ~plan.raised
  /\ (plan # NotCalled /\ ~plan.raised /\ plan.intent \in {"point", "breakdown"})
     => plan.month = _detect_month(question).month
  /\ extracted # NotCalled => extracted.month \in {None} \cup {Some(m) : m \in 0..ym(9999, 12)}

\* the month a question asks about: the one it names, else the latest of the actuals
AskedMonth == IF EngineFacts[question].month # None THEN EngineFacts[question].month[1]
              ELSE Max(DOMAIN engine.actuals_pivot)

\* the last call was a point or a breakdown query
PointOrBreakdownQuery ==
  /\ result # NotCalled
  /\ ~EngineFacts[question].cash_runway
  /\ (EngineFacts[question].breakdown \/ ~EngineFacts[question].trend)
  /\ ~(EngineFacts[question].gross_margin /\ EngineFacts[question].trend)

\* (a) the named month has no row in the actual table, (b) it has one there and
\* none in the budget table, (c) it has no Opex row
MissingData ==
  \/ AskedMonth \notin DOMAIN engine.actuals_pivot
  \/ AskedMonth \in DOMAIN engine.actuals_pivot /\ AskedMonth \notin DOMAIN engine.budget_pivot
  \/ engine_opex_rows(engine.actuals_enriched, AskedMonth) = <<>>

\* C9: a point or breakdown query on a month with missing data returns a result
\* with text and does not raise, in both engines.
C9_MissingDataNeverRaises ==
  (PointOrBreakdownQuery /\ MissingData) => ~result.out.raised

\* the percentage columns of a monthly row are as the specification states
PctAsStated(revenue, gp, ebitda, gm_pct, ebitda_pct) ==
  IF revenue = 0 THEN IsNaN(gm_pct) /\ IsNaN(ebitda_pct)
  ELSE /\ gm_pct.k = "num" /\ gm_pct.n * revenue = gp * 100 * gm_pct.d
       /\ ebitda_pct.k = "num" /\ ebitda_pct.n * revenue = ebitda * 100 * ebitda_pct.d

\* C10: in every row of the actual and budget monthly tables, Gross Margin % and
\* EBITDA % are undefined (NaN) when Revenue is 0 and Gross Profit / Revenue * 100
\* and EBITDA / Revenue * 100 otherwise.
C10_ZeroRevenueGivesUndefinedPct ==
  /\ \A t \in {engine.actuals_pivot, engine.budget_pivot} : \A d \in DOMAIN t :
       PctAsStated(t[d].Revenue, t[d].Revenue - t[d].Cogs,
                   t[d].Revenue - t[d].Cogs - t[d].Opex,
                   t[d].GrossMarginPct, t[d].EBITDAPct)
  /\ \A t \in {tools.actual_summary, tools.budget_summary} : \A d \in DOMAIN t :
       PctAsStated(t[d].Revenue, t[d].Revenue - t[d].COGS,
                   t[d].Revenue - t[d].COGS - t[d].Opex,
                   t[d].GrossMarginPct, t[d].EBITDAPct)

\* C10 witness: tables with a month of zero Revenue and non-zero costs and a month
\* of non-zero Revenue, in the engine and in FinanceTools
C10_Witness ==
  /\ \E d \in DOMAIN engine.actuals_pivot :
       engine.actuals_pivot[d].Revenue = 0 /\ engine.actuals_pivot[d].Cogs # 0
  /\ \E d \in DOMAIN engine.actuals_pivot : engine.actuals_pivot[d].Revenue # 0
  /\ \E d \in DOMAIN tools.actual_summary :
       tools.actual_summary[d].Revenue = 0 /\ tools.actual_summary[d].EBITDA # 0
  /\ \E d \in DOMAIN tools.actual_summary : tools.actual_summary[d].Revenue # 0

\* the sum of the USD amounts of the rows of a month the engine classifies as kind
EngineClassSum(usd, d, kind) ==
  SumAmount(SelectSeq(usd, LAMBDA r : r.date = d /\ classify(r.account) = kind))

\* the sum of the USD amounts of the rows of a month whose account group is col
ToolsClassSum(df, d, col) ==
  SumAmount(SelectSeq(df, LAMBDA r : r.date = d /\ r.account_group = col))

\* the derived columns of a row are the differences of its class sums
DerivedAsStated(revenue, cogs, opex, gross_profit, ebitda) ==
  /\ gross_profit = revenue - cogs
  /\ ebitda = revenue - cogs - opex

\* the USD rows of budget.csv in the engine
EngineBudgetUsd == _to_usd(budget_csv, _load_fx(fx_csv))

ClaimedRate(fxrows, date, currency) ==
  LET hits == {i \in DOMAIN fxrows :
                 fxrows[i].date = date /\ fxrows[i].currency = currency}
  IN IF hits = {} THEN 1 ELSE fxrows[Max(hits)].rate_to_usd

\* a normalised table holds one row per ledger row, in the ledger's order, with
\* the USD amount the specification states
NormalisedInOrder(usd, df) ==
  /\ Len(usd) = Len(df)
  /\ \A i \in DOMAIN usd :
       /\ usd[i].date = df[i].date /\ usd[i].account = df[i].account
       /\ usd[i].amount = df[i].amount
       /\ usd[i].amount_usd = df[i].amount * ClaimedRate(fx_csv, df[i].date, df[i].currency)

\* a normalised table holds as many rows as the ledger, each with the USD amount
\* the specification states (the rows may be in another order)
NormalisedRows(usd, df) ==
  /\ Len(usd) = Len(df)
  /\ \A i \in DOMAIN usd :
       usd[i].amount_usd = usd[i].amount * ClaimedRate(fx_csv, usd[i].date, usd[i].currency)

\* C12: currency normalisation outputs exactly one row per ledger row, with USD
\* amount = amount * rate, the rate being that of the last fx row of the row's
\* (date, currency) and 1 when there is none, in the engine (_load, _to_usd) and in
\* FinanceTools._prepare_pl.
C12_NormalisationKeepsRows ==
  /\ NormalisedInOrder(engine.actuals_enriched, actuals_csv)
  /\ NormalisedInOrder(EngineBudgetUsd, budget_csv)
  /\ NormalisedRows(tools.actuals, actuals_csv)
  /\ NormalisedRows(tools.budget, budget_csv)

\* the trend keywords the specification states for the planner
ClaimedTrendCheck(ql) ==
  \E k \in {STR.trend, STR.over_time, STR.chart, STR.plot, STR.line, STR.last,
            STR.history, STR.trailing} : contains(k, ql)

\* the compare_budget flag the specification states
ClaimedCompareBudget(ql) == contains(STR.budget, ql) \/ contains(STR.variance, ql)

\* C13: a question that matches neither the cash-runway check nor the breakdown
\* check is parsed to intent trend when it holds a trend keyword and to intent
\* point otherwise; a trend Plan carries the detected metric, the trailing window
\* and compare_budget, a point Plan the detected metric, the month and
\* compare_budget.
C13_TrendPointSplit ==
  (/\ plan # NotCalled
   /\ ~ClaimedRunwayCheck(lower(question))
   /\ ~ClaimedBreakdownCheck(lower(question)))
  => /\ ~plan.raised
     /\ plan.metric = _detect_metric(lower(question))
     /\ plan.compare_budget = ClaimedCompareBudget(lower(question))
     /\ IF ClaimedTrendCheck(lower(question))
        THEN /\ plan.intent = "trend"
             /\ plan.months = _detect_trailing_months(lower(question))
        ELSE /\ plan.intent = "point"
             /\ plan.month = _detect_month(question).month

\* the part of C13 that holds: the split on the questions the planner's own first
\* two checks let through and whose month text dateutil can parse
TrendPointSplitOfReturnedPlans ==
  (/\ plan # NotCalled
   /\ ~PlannerRunwayCheck(lower(question))
   /\ ~PlannerBreakdownCheck(lower(question))
   /\ ~plan.raised)
  => /\ plan.metric = _detect_metric(lower(question))
     /\ plan.compare_budget = ClaimedCompareBudget(lower(question))
     /\ IF ClaimedTrendCheck(lower(question))
        THEN /\ plan.intent = "trend"
             /\ plan.months = _detect_trailing_months(lower(question))
             /\ plan.month = None
        ELSE /\ plan.intent = "point"
             /\ plan.month = _detect_month(question).month
             /\ plan.months = None

\* v is x / y * 100 printed with one decimal, in tenths: the tenth nearest to it
NearestTenthOfPct(v, x, y) == 2 * Abs(v * y - 1000 * x) <= Abs(y)

\* the text of a Revenue or EBITDA point answer holds the amounts A and B, the
\* variance A - B and the percentage (A - B) / B * 100 with one decimal
VarianceTextAsStated(text, A, B) ==
  /\ text.actual = [g |-> "num", v |-> A]
  /\ text.budget = [g |-> "num", v |-> B]
  /\ text.variance = [g |-> "num", v |-> A - B]
  /\ text.variance_pct.g = "num"
  /\ NearestTenthOfPct(text.variance_pct.v, A - B, B)

\* metric_point returns variance = actual - budget and variance_pct = variance /
\* budget * 100 for a month of both summaries with budget # 0
MetricPointAsStated(metric, month) ==
  LET mp == metric_point(tools, metric, month)
  IN (mp.actual.k = "num" /\ mp.budget.k = "num" /\ mp.budget.n # 0)
     => /\ mp.variance = FInt(mp.actual.n - mp.budget.n)
        /\ mp.variance_pct.k = "num"
        /\ mp.variance_pct.n * mp.budget.n
             = (mp.actual.n - mp.budget.n) * 100 * mp.variance_pct.d

\* C14: a point answer on Revenue or EBITDA for a month of both tables with
\* budget # 0 prints Actual A, Budget B, Variance V = A - B and P = V / B * 100 with
\* one decimal (100,000 against 90,000 gives 10,000 and +11.1%), and
\* FinanceTools.metric_point returns the same variance and variance_pct.
C14_PointVariance ==
  /\ (/\ result # NotCalled
      /\ ~result.out.raised
      /\ result.out.text.kind = "point"
      /\ result.out.text.metric \in {"Revenue", "EBITDA"}
      /\ engine.budget_pivot[result.out.text.month][result.out.text.metric] # 0)
     => VarianceTextAsStated(result.out.text,
                             engine.actuals_pivot[result.out.text.month][result.out.text.metric],
                             engine.budget_pivot[result.out.text.month][result.out.text.metric])
  /\ \A metric \in {"revenue", "ebitda"} :
       \A month \in DOMAIN tools.actual_summary \cap DOMAIN tools.budget_summary :
          MetricPointAsStated(metric, month)

\* C14 witness: the Revenue point answer for June 2025 with actual 100,000 and
\* budget 90,000 reads variance 10,000 and +11.1%, and metric_point gives 10,000
C14_Witness ==
  /\ result # NotCalled
  /\ ~result.out.raised
  /\ result.out.text.kind = "point"
  /\ result.out.text.metric = "Revenue"
  /\ result.out.text.month = JUN
  /\ result.out.text.actual.v = 100000
  /\ result.out.text.budget.v = 90000
  /\ result.out.text.variance.v = 10000
  /\ result.out.text.variance_pct = [g |-> "num", v |-> 111]
  /\ metric_point(tools, "revenue", JUN).variance = FInt(10000)

\* the engine as build_engine returns it on the files
BuiltEngine == build_engine(actuals_csv, budget_csv, fx_csv, cash_csv)

\* C15: after any sequence of answer() calls the aggregate tables, the USD ledger
\* rows and the cash table are those build_engine returned, and the result of the
\* last call is the one the question gets from the engine as built, whatever was
\* asked before.
C15_QueriesLeaveEngineUnchanged ==
  /\ engine = BuiltEngine
  /\ result # NotCalled
     => result.out \in (IF result.impl = "agent"
                        THEN answer(BuiltEngine, EngineFacts[question], plotting)
                        ELSE legacy_answer(BuiltEngine, EngineFacts[question], plotting))

\* C15 witness: a second call on the same engine has returned a cash-runway answer
C15_Witness ==
  /\ result # NotCalled
  /\ result.n >= 2
  /\ ~result.out.raised
  /\ result.out.text.kind = "cash_runway"

\* the sub-category the specification states for an Opex account: the text after
\* the first colon, "Other" without a colon (compared up to surrounding spaces)
ClaimedCategory(account) ==
  IF FirstColon(account) = 0 THEN STR.Other ELSE strip(AfterColon(account))

\* the rows of a month the specification classes as Opex
ClaimedOpexRows(rows, month) ==
  SelectSeq(rows, LAMBDA r : r.date = month /\ ClaimedClass(r.account) = "Opex")

\* the amount the specification states for a sub-category of a month
ClaimedCategorySum(rows, month, category) ==
  SumAmount(SelectSeq(ClaimedOpexRows(rows, month),
                      LAMBDA r : ClaimedCategory(r.account) = category))

\* the sub-categories the specification states for a month
ClaimedCategories(rows, month) ==
  {ClaimedCategory(r.account) : r \in Range(ClaimedOpexRows(rows, month))}

\* C16: the Opex breakdown of a month has one row per sub-category of the month's
\* Opex rows (the text after the first colon of the account, "Other" without a
\* colon), each with the sum of its amounts, ordered by amount descending, and is
\* empty when the month has no Opex row, for _opex_breakdown of the engine and for
\* FinanceTools.opex_breakdown.
C16_BreakdownShape ==
  /\ (tool_out # NotCalled /\ tool_out.op = "_opex_breakdown")
     => LET t == tool_out.out
            rows == engine.actuals_enriched
        IN /\ Len(t) = Cardinality(ClaimedCategories(rows, tool_out.month))
           /\ {strip(t[i].category) : i \in DOMAIN t} = ClaimedCategories(rows, tool_out.month)
           /\ \A i \in DOMAIN t :
                t[i].amount_usd = ClaimedCategorySum(rows, tool_out.month, strip(t[i].category))
           /\ \A i, j \in DOMAIN t : i < j => t[i].amount_usd >= t[j].amount_usd
  /\ (tool_out # NotCalled /\ tool_out.op = "opex_breakdown")
     => LET t == tool_out.out
            cats == ClaimedCategories(tools.actuals, tool_out.month)
                      \cup ClaimedCategories(tools.budget, tool_out.month)
        IN /\ Len(t) = Cardinality(cats)
           /\ {strip(t[i].Category) : i \in DOMAIN t} = cats
           /\ \A i \in DOMAIN t :
                /\ t[i].Actual = ClaimedCategorySum(tools.actuals, tool_out.month,
                                                    strip(t[i].Category))
                /\ t[i].Budget = ClaimedCategorySum(tools.budget, tool_out.month,
                                                    strip(t[i].Category))
           /\ ClaimedOpexRows(tools.budget, tool_out.month) = <<>>
              => \A i, j \in DOMAIN t : i < j => t[i].Actual >= t[j].Actual

\* the part of C16 on the engine's _opex_breakdown alone
EngineBreakdownShape ==
  (tool_out # NotCalled /\ tool_out.op = "_opex_breakdown")
  => LET t == tool_out.out
         rows == engine.actuals_enriched
     IN /\ Len(t) = Cardinality(ClaimedCategories(rows, tool_out.month))
        /\ {strip(t[i].category) : i \in DOMAIN t} = ClaimedCategories(rows, tool_out.month)
        /\ \A i \in DOMAIN t :
             t[i].amount_usd = ClaimedCategorySum(rows, tool_out.month, strip(t[i].category))
        /\ \A i, j \in DOMAIN t : i < j => t[i].amount_usd >= t[j].amount_usd

\* some alias of a set occurs in the text
AnyOf(aliases, text) == \E k \in aliases : contains(k, text)

\* the metric the specification states: the first of the table, in table order,
\* with an alias in the text, revenue when there is none
ClaimedMetric(text) ==
  IF AnyOf({STR.revenue, STR.sales, STR.top_line}, text) THEN "revenue"
  ELSE IF AnyOf({STR.gross_margin, STR.gmpct, STR.marginpct, STR.margin_pct}, text)
  THEN "gross margin %"
  ELSE IF AnyOf({STR.gross_profit, STR.gp}, text) THEN "gross profit"
  ELSE IF AnyOf({STR.cogs, STR.cost_of_goods, STR.costs}, text) THEN "cogs"
  ELSE IF AnyOf({STR.opex, STR.operating_expense, STR.expenses}, text) THEN "opex"
  ELSE IF AnyOf({STR.ebitda, STR.operating_income}, text) THEN "ebitda"
  ELSE IF AnyOf({STR.ebitda_pct, STR.ebitda_margin}, text) THEN "ebitda %"
  ELSE "revenue"

\* the Plan carries the metric _detect_metric returned
CarriesDetectedMetric ==
  plan # NotCalled /\ ~plan.raised /\ plan.intent \in {"trend", "point"}

\* C17: _detect_metric returns the first metric, in the order revenue, gross
\* margin %, gross profit, cogs, opex, ebitda, ebitda %, with an alias in the
\* text, and revenue when no alias occurs; the same metric is returned when the
\* phrases of the question change places.
C17_FirstMetricOfTheTableWins ==
  CarriesDetectedMetric
  => /\ plan.metric = ClaimedMetric(lower(question))
     /\ \A a, b \in Range(PHRASES) :
          question = Join(<<a, b>>) => plan.metric = ClaimedMetric(lower(Join(<<b, a>>)))

\* C17 witness: in "EBITDA margin top line" an alias of ebitda comes before the
\* alias of revenue, and the Plan carries revenue
C17_Witness ==
  /\ CarriesDetectedMetric
  /\ question = Join(<<PHRASE.ebitda_margin, PHRASE.top_line>>)
  /\ plan.metric = "revenue"

\* C18: each of the seven metrics of the planner's table is returned for some
\* question; in particular the texts "ebitda %" and "EBITDA margin" give metric
\* ebitda %, and the alias "top line" alone gives its metric with intent point.
C18_EveryMetricReachable ==
  /\ (plan # NotCalled /\ question \in {PHRASE.ebitda_pct, PHRASE.ebitda_margin})
     => ~plan.raised /\ plan.metric = "ebitda %"
  /\ (plan # NotCalled /\ question = PHRASE.top_line)
     => ~plan.raised /\ plan.metric = "revenue" /\ plan.intent = "point"

\* no Plan carries the metric ebitda %: each of its aliases holds "ebitda", an
\* alias of the metric before it in the table
EbitdaPctNeverReturned ==
  (plan # NotCalled /\ ~plan.raised) => plan.metric # "ebitda %"

====
